---- MODULE Spec2Model ----
(***************************************************************************)
(* Model of three parts of Nyxus:                                          *)
(*   - GeodeticLengthThicknessFeature (features/geo_len_thickness.cpp):    *)
(*     calculate / osized_calculate / save_value and the batch worker      *)
(*     parallel_process_1_batch run by several workers over the shared     *)
(*     label -> record map roiData (globals.cpp);                          *)
(*   - NGTDM_features (ngtdm.cpp): initialize and the five calc_* scalars. *)
(*                                                                         *)
(* C++ double values are modelled as exact real numbers of the form        *)
(*     a + k * sqrt(r)      (a, k rational, r a square-free natural)       *)
(* plus the IEEE specials +inf, -inf and NaN.  Rounding of the mantissa is *)
(* not modelled; conversions between double and integer types and integer  *)
(* division are modelled as C++ performs them (truncation).                *)
(***************************************************************************)
EXTENDS Integers, Naturals, Sequences, FiniteSets, TLC

(***************************************************************************)
(* Bounds of the model.                                                    *)
(***************************************************************************)
MaxArea == 110         \* geodetic: areas 0..MaxArea
MaxPerimeter == 42     \* geodetic: perimeters 0..MaxPerimeter, in steps of 1/2
MaxLabels == 3         \* batch pass: label ids 1..MaxLabels
NumWorkers == 2        \* batch pass: number of concurrent workers
MaxHeight == 2         \* NGTDM: image heights 1..MaxHeight
MaxWidth == 3          \* NGTDM: image widths 1..MaxWidth
MaxIntensity == 2      \* NGTDM: pixel intensities 0..MaxIntensity

(***************************************************************************)
(* Exact arithmetic standing for C++ double.                               *)
(***************************************************************************)
Abs(x) == IF x < 0 THEN -x ELSE x

RECURSIVE GCD(_, _)
GCD(a, b) == IF b = 0 THEN a ELSE GCD(b, a % b)

\* A rational in lowest terms with positive denominator, as <<num, den>>.
Rat(n, d) ==
    LET g == GCD(Abs(n), Abs(d))
        s == IF d < 0 THEN -1 ELSE 1
    IN  <<s * (n \div g), Abs(d) \div g>>

RAdd(x, y) == Rat(x[1] * y[2] + y[1] * x[2], x[2] * y[2])
RNeg(x) == <<-x[1], x[2]>>
RMul(x, y) == Rat(x[1] * y[1], x[2] * y[2])
RInv(x) == Rat(x[2], x[1])
RZero == <<0, 1>>

\* A finite double a + k*sqrt(r); r = 0 exactly when k = 0.
Fin(a, k, r) ==
    IF k = RZero \/ r = 0
    THEN [cls |-> "fin", a |-> a, k |-> RZero, r |-> 0]
    ELSE [cls |-> "fin", a |-> a, k |-> k, r |-> r]

NaN == [cls |-> "nan", a |-> RZero, k |-> RZero, r |-> 0]
PosInf == [cls |-> "+inf", a |-> RZero, k |-> RZero, r |-> 0]
NegInf == [cls |-> "-inf", a |-> RZero, k |-> RZero, r |-> 0]

\* The double holding the rational n/d, and the double holding the integer n.
DRat(n, d) == Fin(Rat(n, d), RZero, 0)
DNum(n) == DRat(n, 1)
DZero == DNum(0)

IsFinite(x) == x.cls = "fin"

\* Sign of a double that is not NaN.
DSign(x) ==
    IF x.cls = "+inf" THEN 1
    ELSE IF x.cls = "-inf" THEN -1
    ELSE IF x.r = 0 THEN (IF x.a[1] > 0 THEN 1 ELSE IF x.a[1] < 0 THEN -1 ELSE 0)
    ELSE IF x.a[1] >= 0 /\ x.k[1] > 0 THEN 1
    ELSE IF x.a[1] <= 0 /\ x.k[1] < 0 THEN -1
    ELSE \* a and k*sqrt(r) have opposite signs: compare a^2 with k^2 * r
         LET a2 == RMul(x.a, x.a)
             k2r == RMul(RMul(x.k, x.k), <<x.r, 1>>)
             diff == RAdd(a2, RNeg(k2r))
         IN  IF diff[1] = 0 THEN 0
             ELSE IF (diff[1] > 0) = (x.a[1] > 0) THEN 1 ELSE -1

DNeg(x) ==
    IF x.cls = "nan" THEN NaN
    ELSE IF x.cls = "+inf" THEN NegInf
    ELSE IF x.cls = "-inf" THEN PosInf
    ELSE Fin(RNeg(x.a), RNeg(x.k), x.r)

\* x + y.  Two surds are added when they share the radicand, which is the
\* only case the modelled code produces.
DAdd(x, y) ==
    IF x.cls = "nan" \/ y.cls = "nan" THEN NaN
    ELSE IF x.cls # "fin" /\ y.cls # "fin" THEN (IF x.cls = y.cls THEN x ELSE NaN)
    ELSE IF x.cls # "fin" THEN x
    ELSE IF y.cls # "fin" THEN y
    ELSE IF y.r = 0 THEN Fin(RAdd(x.a, y.a), x.k, x.r)
    ELSE IF x.r = 0 THEN Fin(RAdd(x.a, y.a), y.k, y.r)
    ELSE IF x.r = y.r THEN Fin(RAdd(x.a, y.a), RAdd(x.k, y.k), x.r)
    ELSE NaN \* not reached: radicands always agree

DSub(x, y) == DAdd(x, DNeg(y))

\* x * y for rational operands (specials propagate as in IEEE 754).
DMul(x, y) ==
    IF x.cls = "nan" \/ y.cls = "nan" THEN NaN
    ELSE IF x.cls # "fin" \/ y.cls # "fin"
         THEN LET s == DSign(x) * DSign(y)
              IN  IF s = 0 THEN NaN ELSE IF s > 0 THEN PosInf ELSE NegInf
    ELSE IF y.r = 0 THEN Fin(RMul(x.a, y.a), RMul(x.k, y.a), x.r)
    ELSE IF x.r = 0 THEN Fin(RMul(x.a, y.a), RMul(y.k, x.a), y.r)
    ELSE NaN \* not reached: no product of two surds is formed

\* x / y for a rational divisor (IEEE 754: x/0 is +-inf, 0/0 is NaN).
DDiv(x, y) ==
    IF x.cls = "nan" \/ y.cls = "nan" THEN NaN
    ELSE IF x.cls # "fin" /\ y.cls # "fin" THEN NaN
    ELSE IF x.cls # "fin" THEN (IF DSign(y) >= 0 THEN x ELSE DNeg(x))
    ELSE IF y.cls # "fin" THEN DZero
    ELSE IF y.a[1] = 0 /\ y.r = 0
         THEN (IF DSign(x) = 0 THEN NaN ELSE IF DSign(x) > 0 THEN PosInf ELSE NegInf)
    ELSE IF y.r = 0 THEN Fin(RMul(x.a, RInv(y.a)), RMul(x.k, RInv(y.a)), x.r)
    ELSE NaN \* not reached: no surd divisor is formed

DAbs(x) ==
    IF x.cls = "nan" THEN NaN
    ELSE IF x.cls # "fin" THEN PosInf
    ELSE IF DSign(x) < 0 THEN DNeg(x) ELSE x

DLess(x, y) == x.cls # "nan" /\ y.cls # "nan" /\ DSign(DSub(x, y)) < 0

\* Largest m with m*m dividing n (n > 0).
SquareDivisors(n) == {m \in 1..n : m * m <= n /\ n % (m * m) = 0}
SquarePart(n) == CHOOSE m \in SquareDivisors(n) : \A q \in SquareDivisors(n) : q <= m

\* sqrt(x) of a rational double: sqrt(n/d) = sqrt(n*d)/d; NaN below zero.
DSqrt(x) ==
    IF x.cls = "nan" \/ x.cls = "-inf" THEN NaN
    ELSE IF x.cls = "+inf" THEN PosInf
    ELSE IF x.a[1] < 0 THEN NaN
    ELSE IF x.a[1] = 0 THEN DZero
    ELSE LET nd == x.a[1] * x.a[2]
             m == SquarePart(nd)
             rr == nd \div (m * m)
         IN  IF rr = 1 THEN Fin(Rat(m, x.a[2]), RZero, 0)
             ELSE Fin(RZero, Rat(m, x.a[2]), rr)

\* Conversion double -> size_t / int of a non-negative rational: truncation.
TruncToInt(x) == x.a[1] \div x.a[2]


(***************************************************************************)
(* Region records (LR) and the geodetic feature method.                    *)
(***************************************************************************)
FeatureIds == {"AREA_PIXELS_COUNT", "PERIMETER", "GEODETIC_LENGTH", "THICKNESS"}
ProvidedFeatures == {"GEODETIC_LENGTH", "THICKNESS"}
Dependencies == {"AREA_PIXELS_COUNT", "PERIMETER"}

\* A record with area a, perimeter per (a double), validity flag bad and
\* the two provided entries holding gl0 and th0.
MakeLR(a, per, bad, gl0, th0) ==
    [aux_area |-> a,
     bad_data |-> bad,
     fvals |-> [f \in FeatureIds |->
                  CASE f = "AREA_PIXELS_COUNT" -> DNum(a)
                    [] f = "PERIMETER" -> per
                    [] f = "GEODETIC_LENGTH" -> gl0
                    [] f = "THICKNESS" -> th0]]

has_bad_data(r) == r.bad_data

\* Line 15: size_t product and quotient, then a double subtraction.
RadicandRaw(roiPerimeter, roiArea) ==
    DSub(DNum((roiPerimeter * roiPerimeter) \div 16), DNum(roiArea))

ClampMissing(x) == x

\* Lines 18-19.
ClampRadicand(x) == IF DLess(x, DZero) THEN DZero ELSE x

\* calculate(): the locals and the two members it assigns.
calculate(r) ==
    LET roiArea == r.aux_area
        roiPerimeter == TruncToInt(r.fvals["PERIMETER"])
        SqRootTmp == ClampRadicand(RadicandRaw(roiPerimeter, roiArea))
        gl == DAdd(DNum(roiPerimeter \div 4), DSqrt(SqRootTmp))
        th == DSub(DNum(roiPerimeter \div 2), gl)
    IN  [roiArea |-> roiArea, roiPerimeter |-> roiPerimeter, SqRootTmp |-> SqRootTmp,
         geodetic_length |-> gl, thickness |-> th]

\* The members of a GeodeticLengthThicknessFeature object.
Members(c) == [geodetic_length |-> c.geodetic_length, thickness |-> c.thickness]

SaveGeodeticLength(fvals, glt) == [fvals EXCEPT !["GEODETIC_LENGTH"] = glt.geodetic_length]
SaveThickness(fvals, glt) == [fvals EXCEPT !["THICKNESS"] = glt.thickness]
save_value(fvals, glt) == SaveThickness(SaveGeodeticLength(fvals, glt), glt)

(***************************************************************************)
(* State.                                                                  *)
(***************************************************************************)
VARIABLES
    \* one feature object applied to one record (SpecGeo)
    gR,          \* the record r
    gObj,        \* the object's members geodetic_length, thickness
    gLocals,     \* the locals of the last calculate() call
    gpc,         \* "constructed", "calculated", "saved"
    \* the batch pass (Spec)
    ptrLabels,   \* the label list
    roiData,     \* the label -> record map
    roiData0,    \* roiData as it was when the pass was dispatched
    ranges,      \* worker -> <<start, end>>
    wi,          \* worker -> loop index i
    wpc,         \* worker -> position in parallel_process_1_batch
    wlab,        \* worker -> lab
    wglt,        \* worker -> members of its glt object
    visits,      \* label -> number of loop iterations that fetched it
    touched,     \* label -> workers that accessed its record
    written,     \* label -> identifiers written by the pass
    missing,     \* worker -> it looked up a label that had no record
    \* one NGTDM_features object (SpecNgtdm)
    im,          \* the pixel matrix: [height, width, px]
    minI, maxI,  \* the arguments of initialize
    ngtdm,       \* the object's members
    Z,           \* initialize's list of (intensity, neighbourhood average)
    lastCall,    \* the last calc_* call and the value it returned
    npc          \* "constructed", "initialized"

geoVars == <<gR, gObj, gLocals, gpc>>
batchVars == <<ptrLabels, roiData, roiData0, ranges, wi, wpc, wlab, wglt,
               visits, touched, written, missing>>
ngtdmVars == <<im, minI, maxI, ngtdm, Z, lastCall, npc>>
vars == <<gR, gObj, gLocals, gpc,
          ptrLabels, roiData, roiData0, ranges, wi, wpc, wlab, wglt,
          visits, touched, written, missing,
          im, minI, maxI, ngtdm, Z, lastCall, npc>>

(***************************************************************************)
(* SpecGeo: one GeodeticLengthThicknessFeature object and one record.      *)
(***************************************************************************)
AreaInputs == 0..MaxArea
PerimeterInputs == {DRat(p, 2) : p \in 0..(2 * MaxPerimeter)}

NoLocals == [roiArea |-> 0, roiPerimeter |-> 0, SqRootTmp |-> DZero]
NoMembers == [geodetic_length |-> DZero, thickness |-> DZero]

GeoIdle ==
    /\ gR = MakeLR(0, DZero, FALSE, DZero, DZero)
    /\ gObj = NoMembers
    /\ gLocals = NoLocals
    /\ gpc = "idle"

GeoInit ==
    /\ \E a \in AreaInputs, per \in PerimeterInputs :
          gR = MakeLR(a, per, FALSE, DZero, DZero)
    /\ gObj = NoMembers
    /\ gLocals = NoLocals
    /\ gpc = "constructed"

GeoCalculate ==
    /\ gpc = "constructed"
    /\ LET c == calculate(gR)
       IN  /\ gObj' = Members(c)
           /\ gLocals' = [roiArea |-> c.roiArea, roiPerimeter |-> c.roiPerimeter,
                          SqRootTmp |-> c.SqRootTmp]
    /\ gpc' = "calculated"
    /\ UNCHANGED gR

\* osized_calculate delegates to calculate.
GeoOsizedCalculate ==
    /\ gpc = "constructed"
    /\ LET c == calculate(gR)
       IN  /\ gObj' = Members(c)
           /\ gLocals' = [roiArea |-> c.roiArea, roiPerimeter |-> c.roiPerimeter,
                          SqRootTmp |-> c.SqRootTmp]
    /\ gpc' = "calculated"
    /\ UNCHANGED gR

GeoSaveValue ==
    /\ gpc = "calculated"
    /\ gR' = [gR EXCEPT !.fvals = save_value(gR.fvals, gObj)]
    /\ gpc' = "saved"
    /\ UNCHANGED <<gObj, gLocals>>


(***************************************************************************)
(* Spec: the batch pass.  NumWorkers workers each run                      *)
(* parallel_process_1_batch(start, end, &ptrLabels, &roiData) on their own *)
(* index range; their steps interleave freely.                             *)
(***************************************************************************)
LabelIds == 1..MaxLabels
Workers == 1..NumWorkers

\* Label lists: sequences of distinct labels (the list is built from the
\* set uniqueLabels).
LabelLists ==
    UNION {{s \in [1..n -> LabelIds] : \A i, j \in 1..n : i # j => s[i] # s[j]}
           : n \in 0..MaxLabels}

\* The records a label can have when the pass is dispatched: one with good
\* data and one flagged bad.  The provided entries hold 0.0 or the values
\* left by an earlier pass.
PriorValue(lab) == IF lab % 2 = 0 THEN DNum(lab) ELSE DZero
RecordInputs(lab) ==
    {MakeLR(lab % 2, DRat(8 * lab + 5, 2), bad, PriorValue(lab), PriorValue(lab))
       : bad \in BOOLEAN}

Registries ==
    UNION {{rd \in [ks -> UNION {RecordInputs(l) : l \in ks}] :
              \A l \in ks : rd[l] \in RecordInputs(l)}
           : ks \in SUBSET LabelIds}

\* The record std::unordered_map::operator[] inserts for an absent key: an
\* empty record; the state of its validity flag is not fixed by these sources.
DefaultLR == {MakeLR(0, DZero, bad, DZero, DZero) : bad \in BOOLEAN}

\* Contiguous, pairwise-disjoint ranges [start, end) covering 0..n-1.
Partitions(n) ==
    {[w \in Workers |-> <<c[w - 1], c[w]>>] :
        c \in {c \in [0..NumWorkers -> 0..n] :
                 /\ c[0] = 0
                 /\ c[NumWorkers] = n
                 /\ \A w \in Workers : c[w - 1] <= c[w]}}

BatchIdle ==
    /\ ptrLabels = <<>>
    /\ roiData = <<>>
    /\ roiData0 = <<>>
    /\ ranges = [w \in Workers |-> <<0, 0>>]
    /\ wi = [w \in Workers |-> 0]
    /\ wpc = [w \in Workers |-> "idle"]
    /\ wlab = [w \in Workers |-> 0]
    /\ wglt = [w \in Workers |-> NoMembers]
    /\ visits = [l \in LabelIds |-> 0]
    /\ touched = [l \in LabelIds |-> {}]
    /\ written = [l \in LabelIds |-> {}]
    /\ missing = [w \in Workers |-> FALSE]

BatchInit ==
    /\ ptrLabels \in LabelLists
    /\ roiData \in Registries
    /\ roiData0 = roiData
    /\ ranges \in Partitions(Len(ptrLabels))
    /\ wi = [w \in Workers |-> ranges[w][1]]
    /\ wpc = [w \in Workers |-> "loop"]
    /\ wlab = [w \in Workers |-> 0]
    /\ wglt = [w \in Workers |-> NoMembers]
    /\ visits = [l \in LabelIds |-> 0]
    /\ touched = [l \in LabelIds |-> {}]
    /\ written = [l \in LabelIds |-> {}]
    /\ missing = [w \in Workers |-> FALSE]

\* Line 43: the loop condition and the increment.
LoopCond(i, end) == i < end
NextIndexSkipping(i) == i + 2
NextIndex(i) == i + 1

\* Line 48: the records the worker passes over.
SkipNothing(r) == FALSE
SkipRecord(r) == has_bad_data(r)

\* Line 43, condition false: the worker returns.
WorkerReturn(w) ==
    /\ wpc[w] = "loop"
    /\ ~LoopCond(wi[w], ranges[w][2])
    /\ wpc' = [wpc EXCEPT ![w] = "done"]
    /\ UNCHANGED <<ptrLabels, roiData, roiData0, ranges, wi, wlab, wglt,
                   visits, touched, written, missing>>

\* Lines 43-46: fetch the label and look its record up; the key is present.
WorkerLookup(w) ==
    /\ wpc[w] = "loop"
    /\ LoopCond(wi[w], ranges[w][2])
    /\ LET lab == ptrLabels[wi[w] + 1]
       IN  /\ lab \in DOMAIN roiData
           /\ wlab' = [wlab EXCEPT ![w] = lab]
           /\ visits' = [visits EXCEPT ![lab] = @ + 1]
           /\ touched' = [touched EXCEPT ![lab] = @ \cup {w}]
    /\ wpc' = [wpc EXCEPT ![w] = "check"]
    /\ UNCHANGED <<ptrLabels, roiData, roiData0, ranges, wi, wglt, written, missing>>

\* Lines 43-46 when the key is absent: operator[] inserts a default record
\* and returns a reference to it.
WorkerLookupInsert(w) ==
    /\ wpc[w] = "loop"
    /\ LoopCond(wi[w], ranges[w][2])
    /\ LET lab == ptrLabels[wi[w] + 1]
       IN  /\ lab \notin DOMAIN roiData
           /\ \E d \in DefaultLR :
                 roiData' = [l \in DOMAIN roiData \cup {lab} |->
                               IF l = lab THEN d ELSE roiData[l]]
           /\ wlab' = [wlab EXCEPT ![w] = lab]
           /\ visits' = [visits EXCEPT ![lab] = @ + 1]
           /\ touched' = [touched EXCEPT ![lab] = @ \cup {w}]
    /\ missing' = [missing EXCEPT ![w] = TRUE]
    /\ wpc' = [wpc EXCEPT ![w] = "check"]
    /\ UNCHANGED <<ptrLabels, roiData0, ranges, wi, wglt, written>>

\* Lines 48-49: a record with bad data is passed over.
WorkerSkip(w) ==
    /\ wpc[w] = "check"
    /\ SkipRecord(roiData[wlab[w]])
    /\ wi' = [wi EXCEPT ![w] = NextIndex(@)]
    /\ wpc' = [wpc EXCEPT ![w] = "loop"]
    /\ UNCHANGED <<ptrLabels, roiData, roiData0, ranges, wlab, wglt,
                   visits, touched, written, missing>>

\* Lines 48, 51-52: a fresh object computes from the record.
WorkerCalculate(w) ==
    /\ wpc[w] = "check"
    /\ ~SkipRecord(roiData[wlab[w]])
    /\ wglt' = [wglt EXCEPT ![w] = Members(calculate(roiData[wlab[w]]))]
    /\ wpc' = [wpc EXCEPT ![w] = "save_gl"]
    /\ UNCHANGED <<ptrLabels, roiData, roiData0, ranges, wi, wlab,
                   visits, touched, written, missing>>

\* Lines 53, 37: save_value's first store.
WorkerSaveGeodeticLength(w) ==
    /\ wpc[w] = "save_gl"
    /\ roiData' = [roiData EXCEPT ![wlab[w]].fvals = SaveGeodeticLength(@, wglt[w])]
    /\ written' = [written EXCEPT ![wlab[w]] = @ \cup {"GEODETIC_LENGTH"}]
    /\ touched' = [touched EXCEPT ![wlab[w]] = @ \cup {w}]
    /\ wpc' = [wpc EXCEPT ![w] = "save_th"]
    /\ UNCHANGED <<ptrLabels, roiData0, ranges, wi, wlab, wglt, visits, missing>>

\* Lines 53, 38: save_value's second store, then the next iteration.
WorkerSaveThickness(w) ==
    /\ wpc[w] = "save_th"
    /\ roiData' = [roiData EXCEPT ![wlab[w]].fvals = SaveThickness(@, wglt[w])]
    /\ written' = [written EXCEPT ![wlab[w]] = @ \cup {"THICKNESS"}]
    /\ touched' = [touched EXCEPT ![wlab[w]] = @ \cup {w}]
    /\ wi' = [wi EXCEPT ![w] = NextIndex(@)]
    /\ wpc' = [wpc EXCEPT ![w] = "loop"]
    /\ UNCHANGED <<ptrLabels, roiData0, ranges, wlab, wglt, visits, missing>>

AllDone == \A w \in Workers : wpc[w] = "done"

\* One call of parallel_process_1_batch over [i, end) on the map rd, all of
\* whose keys are present.
RECURSIVE parallel_process_1_batch(_, _, _, _)
parallel_process_1_batch(rd, labs, i, end) ==
    IF ~LoopCond(i, end) THEN rd
    ELSE LET lab == labs[i + 1]
             r == rd[lab]
         IN  IF SkipRecord(r)
             THEN parallel_process_1_batch(rd, labs, NextIndex(i), end)
             ELSE parallel_process_1_batch([rd EXCEPT ![lab].fvals = save_value(@, Members(calculate(r)))],
                             labs, NextIndex(i), end)


(***************************************************************************)
(* SpecNgtdm: one NGTDM_features object, initialize and the calc_* calls.  *)
(***************************************************************************)
BAD_ROI_FVAL == DZero

RECURSIVE DSumSeq(_)
DSumSeq(s) == IF s = <<>> THEN DZero ELSE DAdd(DSumSeq(SubSeq(s, 1, Len(s) - 1)), s[Len(s)])

\* Pixel matrices: rows 0..height-1, columns 0..width-1.
Pixels(h, w) == (0..(h - 1)) \X (0..(w - 1))
D(m, row, col) == m.px[<<row, col>>]
Safe(m, row, col) == row >= 0 /\ row < m.height /\ col >= 0 /\ col < m.width

NonZeroPixels(m) == {p \in Pixels(m.height, m.width) : m.px[p] # 0}

\* The ROI's observed minimum and maximum intensity.
RoiMin(m) == CHOOSE v \in {m.px[p] : p \in NonZeroPixels(m)} :
                \A p \in NonZeroPixels(m) : v <= m.px[p]
RoiMax(m) == CHOOSE v \in {m.px[p] : p \in NonZeroPixels(m)} :
                \A p \in NonZeroPixels(m) : v >= m.px[p]

Images ==
    UNION {{[height |-> h, width |-> w, px |-> f] : f \in [Pixels(h, w) -> 0..MaxIntensity]}
           : <<h, w>> \in (1..MaxHeight) \X (1..MaxWidth)}

\* Lines 43-82: the eight neighbour offsets, in the order they are probed.
NeighbourOffsets == <<<<-1, 0>>, <<-1, 1>>, <<0, 1>>, <<1, 1>>,
                      <<1, 0>>, <<1, -1>>, <<0, -1>>, <<-1, -1>>>>

SafeNeighbours(m, row, col) ==
    {k \in 1..8 : Safe(m, row + NeighbourOffsets[k][1], col + NeighbourOffsets[k][2])}

RECURSIVE SumOver(_, _, _, _)
SumOver(m, row, col, ks) ==
    IF ks = {} THEN 0
    ELSE LET k == CHOOSE k \in ks : TRUE
         IN  D(m, row + NeighbourOffsets[k][1], col + NeighbourOffsets[k][2])
               + SumOver(m, row, col, ks \ {k})

\* neigsI and nd after the eight tests.
NeighbourSum(m, row, col) == SumOver(m, row, col, SafeNeighbours(m, row, col))
NeighbourCount(m, row, col) == Cardinality(SafeNeighbours(m, row, col))

ExactQuotient(n, d) == DRat(n, d)

\* Line 85: neigsI /= nd on the unsigned integer neigsI, then the
\* conversion to double of line 86.
AveNeighbourhood(n, d) == DNum(n \div d)

\* Lines 30-91: the list Z, in scan order (row-major), of the non-zero pixels.
RECURSIVE GatherZones(_, _)
GatherZones(m, idx) ==
    IF idx >= m.height * m.width THEN <<>>
    ELSE LET row == idx \div m.width
             col == idx % m.width
             pi == D(m, row, col)
         IN  IF pi = 0 THEN GatherZones(m, idx + 1)
             ELSE <<<<pi, AveNeighbourhood(NeighbourSum(m, row, col),
                                            NeighbourCount(m, row, col))>>>>
                    \o GatherZones(m, idx + 1)

\* Lines 104-105: the distinct intensities, ascending.
RECURSIVE SortedSeq(_)
SortedSeq(U) ==
    IF U = {} THEN <<>>
    ELSE LET lo == CHOOSE v \in U : \A u \in U : v <= u
         IN  <<lo>> \o SortedSeq(U \ {lo})

\* Line 111: 0-based position of v in I.
IndexOf(I, v) == (CHOOSE k \in 1..Len(I) : I[k] = v) - 1

\* Lines 108-124: N, S and Nvp accumulated over Z.
RECURSIVE Accumulate(_, _, _, _)
Accumulate(acc, zs, I, k) ==
    IF k > Len(zs) THEN acc
    ELSE LET row == IndexOf(I, zs[k][1]) + 1
             pi == zs[k][1]
             aveNeigI == zs[k][2]
         IN  Accumulate([N |-> [acc.N EXCEPT ![row] = @ + 1],
                         S |-> [acc.S EXCEPT ![row] = DAdd(@, DAbs(DSub(DNum(pi), aveNeigI)))],
                         Nvp |-> IF DLess(DZero, aveNeigI) THEN acc.Nvp + 1 ELSE acc.Nvp],
                        zs, I, k + 1)

\* The members after construction.
NgtdmConstructed ==
    [bad_roi_data |-> FALSE, Ng |-> 0, Ngp |-> 0, Nvp |-> 0,
     P |-> <<>>, S |-> <<>>, N |-> <<>>]

NeverDegenerate(lo, hi) == FALSE

\* Line 14.
IsDegenerate(lo, hi) == lo = hi

\* initialize(minI, maxI, im) applied to a freshly constructed object.
initialize(o, lo, hi, m) ==
    IF IsDegenerate(lo, hi) THEN [o EXCEPT !.bad_roi_data = TRUE]
    ELSE LET zs == GatherZones(m, 0)
             U == {zs[k][1] : k \in 1..Len(zs)}
             ng == Cardinality(U)
             I == SortedSeq(U)
             acc == Accumulate([N |-> [i \in 1..ng |-> 0],
                                S |-> [i \in 1..ng |-> DZero],
                                Nvp |-> o.Nvp], zs, I, 1)
         IN  [o EXCEPT !.Ng = ng, !.Ngp = ng, !.Nvp = acc.Nvp,
                       !.N = acc.N, !.S = acc.S,
                       !.P = [i \in 1..ng |-> DDiv(DNum(ng), DNum(m.height * m.width))]]

\* Terms of a double loop over i, j in 0..Ng-1, in loop order.
Pairs(ng) == [k \in 1..(ng * ng) |-> <<(k - 1) \div ng, (k - 1) % ng>>]

\* Denominators of the five scalars.
CoarsenessDen(o) == DSumSeq([i \in 1..o.Ng |-> DMul(o.P[i], o.S[i])])
ContrastDen1(o) == IF o.Ngp > 1 THEN o.Ngp * (o.Ngp - 1) ELSE o.Ngp
ContrastDen2(o) == o.Ngp
BusynessDen(o) ==
    DSumSeq([k \in 1..(o.Ng * o.Ng) |->
               LET i == Pairs(o.Ng)[k][1]
                   j == Pairs(o.Ng)[k][2]
               IN  DAbs(DSub(DMul(o.P[i + 1], DNum(i)), DMul(o.P[j + 1], DNum(j))))])
ComplexityDen(o) == o.Nvp
StrengthDen(o) == DSumSeq(o.S)

calc_Coarseness(o) ==
    IF o.bad_roi_data THEN BAD_ROI_FVAL
    ELSE DDiv(DNum(1), CoarsenessDen(o))

calc_Contrast(o) ==
    IF o.bad_roi_data THEN BAD_ROI_FVAL
    ELSE LET sum1 == DSumSeq([k \in 1..(o.Ng * o.Ng) |->
                        LET i == Pairs(o.Ng)[k][1]
                            j == Pairs(o.Ng)[k][2]
                        IN  DMul(DMul(DMul(o.P[i + 1], o.P[j + 1]),
                                      DNum((i + 1) - (j + 1))),
                                 DNum((i + 1) - (j + 1)))])
             term1 == DDiv(sum1, DNum(ContrastDen1(o)))
             term2 == DDiv(DSumSeq(o.S), DNum(ContrastDen2(o)))
         IN  DMul(term1, term2)

calc_Busyness(o) ==
    IF o.bad_roi_data THEN BAD_ROI_FVAL
    ELSE IF o.Ngp = 1 THEN DZero
    ELSE DDiv(DSumSeq([i \in 1..o.Ng |-> DMul(o.P[i], o.S[i])]), BusynessDen(o))

calc_Complexity(o) ==
    IF o.bad_roi_data THEN BAD_ROI_FVAL
    ELSE LET sum == DSumSeq([k \in 1..(o.Ng * o.Ng) |->
                       LET i == Pairs(o.Ng)[k][1]
                           j == Pairs(o.Ng)[k][2]
                       IN  DDiv(DMul(DNum(Abs((i + 1) - (j + 1))),
                                     DAdd(DMul(o.P[i + 1], o.S[i + 1]),
                                          DMul(o.P[j + 1], o.S[j + 1]))),
                                DAdd(o.P[i + 1], o.P[j + 1]))])
         IN  DDiv(sum, DNum(ComplexityDen(o)))

calc_StrengthUnguarded(o) ==
    LET sum1 == DSumSeq([k \in 1..(o.Ng * o.Ng) |->
                   LET i == Pairs(o.Ng)[k][1]
                       j == Pairs(o.Ng)[k][2]
                   IN  DMul(DMul(DAdd(o.P[i + 1], o.P[j + 1]),
                                 DNum((i + 1) - (j + 1))),
                            DNum((i + 1) - (j + 1)))])
    IN  DDiv(sum1, StrengthDen(o))

calc_Strength(o) ==
    IF o.bad_roi_data THEN BAD_ROI_FVAL
    ELSE LET sum1 == DSumSeq([k \in 1..(o.Ng * o.Ng) |->
                        LET i == Pairs(o.Ng)[k][1]
                            j == Pairs(o.Ng)[k][2]
                        IN  DMul(DMul(DAdd(o.P[i + 1], o.P[j + 1]),
                                      DNum((i + 1) - (j + 1))),
                                 DNum((i + 1) - (j + 1)))])
         IN  DDiv(sum1, StrengthDen(o))

NoCall == [fn |-> "none", ret |-> DZero]

NgtdmIdle ==
    /\ im = [height |-> 0, width |-> 0, px |-> <<>>]
    /\ minI = 0
    /\ maxI = 0
    /\ ngtdm = NgtdmConstructed
    /\ Z = <<>>
    /\ lastCall = NoCall
    /\ npc = "idle"

\* A constructed object and the arguments initialize will get: a matrix with
\* at least one ROI (non-zero) pixel and the ROI's intensity range.
NgtdmInit ==
    /\ im \in {m \in Images : NonZeroPixels(m) # {}}
    /\ minI = RoiMin(im)
    /\ maxI = RoiMax(im)
    /\ ngtdm = NgtdmConstructed
    /\ Z = <<>>
    /\ lastCall = NoCall
    /\ npc = "constructed"

CallInitialize ==
    /\ npc = "constructed"
    /\ ngtdm' = initialize(ngtdm, minI, maxI, im)
    /\ Z' = IF IsDegenerate(minI, maxI) THEN <<>> ELSE GatherZones(im, 0)
    /\ npc' = "initialized"
    /\ UNCHANGED <<im, minI, maxI, lastCall>>

CallCoarseness ==
    /\ npc = "initialized"
    /\ lastCall' = [fn |-> "Coarseness", ret |-> calc_Coarseness(ngtdm)]
    /\ UNCHANGED <<im, minI, maxI, ngtdm, Z, npc>>

CallContrast ==
    /\ npc = "initialized"
    /\ lastCall' = [fn |-> "Contrast", ret |-> calc_Contrast(ngtdm)]
    /\ UNCHANGED <<im, minI, maxI, ngtdm, Z, npc>>

CallBusyness ==
    /\ npc = "initialized"
    /\ lastCall' = [fn |-> "Busyness", ret |-> calc_Busyness(ngtdm)]
    /\ UNCHANGED <<im, minI, maxI, ngtdm, Z, npc>>

CallComplexity ==
    /\ npc = "initialized"
    /\ lastCall' = [fn |-> "Complexity", ret |-> calc_Complexity(ngtdm)]
    /\ UNCHANGED <<im, minI, maxI, ngtdm, Z, npc>>

CallStrength ==
    /\ npc = "initialized"
    /\ lastCall' = [fn |-> "Strength", ret |-> calc_Strength(ngtdm)]
    /\ UNCHANGED <<im, minI, maxI, ngtdm, Z, npc>>

(***************************************************************************)
(* Specifications.                                                         *)
(***************************************************************************)
Init == BatchInit /\ GeoIdle /\ NgtdmIdle

Next ==
    \/ \E w \in Workers : WorkerReturn(w) /\ UNCHANGED <<geoVars, ngtdmVars>>
    \/ \E w \in Workers : WorkerLookup(w) /\ UNCHANGED <<geoVars, ngtdmVars>>
    \/ \E w \in Workers : WorkerLookupInsert(w) /\ UNCHANGED <<geoVars, ngtdmVars>>
    \/ \E w \in Workers : WorkerSkip(w) /\ UNCHANGED <<geoVars, ngtdmVars>>
    \/ \E w \in Workers : WorkerCalculate(w) /\ UNCHANGED <<geoVars, ngtdmVars>>
    \/ \E w \in Workers : WorkerSaveGeodeticLength(w) /\ UNCHANGED <<geoVars, ngtdmVars>>
    \/ \E w \in Workers : WorkerSaveThickness(w) /\ UNCHANGED <<geoVars, ngtdmVars>>

Spec == Init /\ [][Next]_vars

InitGeo == GeoInit /\ BatchIdle /\ NgtdmIdle

NextGeo ==
    \/ GeoCalculate /\ UNCHANGED <<batchVars, ngtdmVars>>
    \/ GeoOsizedCalculate /\ UNCHANGED <<batchVars, ngtdmVars>>
    \/ GeoSaveValue /\ UNCHANGED <<batchVars, ngtdmVars>>

SpecGeo == InitGeo /\ [][NextGeo]_vars

InitNgtdm == NgtdmInit /\ BatchIdle /\ GeoIdle

NextNgtdm ==
    \/ CallInitialize /\ UNCHANGED <<batchVars, geoVars>>
    \/ CallCoarseness /\ UNCHANGED <<batchVars, geoVars>>
    \/ CallContrast /\ UNCHANGED <<batchVars, geoVars>>
    \/ CallBusyness /\ UNCHANGED <<batchVars, geoVars>>
    \/ CallComplexity /\ UNCHANGED <<batchVars, geoVars>>
    \/ CallStrength /\ UNCHANGED <<batchVars, geoVars>>

SpecNgtdm == InitNgtdm /\ [][NextNgtdm]_vars


(***************************************************************************)
(* Properties of the batch pass (Spec).                                    *)
(***************************************************************************)
ListedLabels == {ptrLabels[i] : i \in 1..Len(ptrLabels)}
AllPresent == ListedLabels \subseteq DOMAIN roiData0
InRange(w, lab) ==
    \E i \in 0..(Len(ptrLabels) - 1) :
        ranges[w][1] <= i /\ i < ranges[w][2] /\ ptrLabels[i + 1] = lab

\* C1: when every listed label has a record, workers running on a partition
\* of the index space never fetch a label twice and never share a record,
\* and once all have returned every label was fetched exactly once and the
\* map equals the one a single call over [0, N) produces.
C1_PartitionedPassEqualsSinglePass ==
    AllPresent =>
        /\ \A lab \in LabelIds : visits[lab] <= 1 /\ Cardinality(touched[lab]) <= 1
        /\ AllDone =>
              /\ \A lab \in ListedLabels : visits[lab] = 1
              /\ roiData = parallel_process_1_batch(roiData0, ptrLabels, 0, Len(ptrLabels))

C1_Witness ==
    /\ AllPresent
    /\ AllDone
    /\ Len(ptrLabels) >= 2
    /\ \E v, w \in Workers :
          /\ v # w
          /\ ranges[v][1] < ranges[v][2]
          /\ ranges[w][1] < ranges[w][2]
          /\ \E a, b \in ListedLabels :
                /\ touched[a] = {v} /\ written[a] = ProvidedFeatures
                /\ touched[b] = {w} /\ written[b] = ProvidedFeatures

\* C2: a lookup of a label without a record ends the worker with an
\* UnknownLabel failure and never changes the key set of the map.
C2_UnknownLabelSurfaced ==
    /\ DOMAIN roiData = DOMAIN roiData0
    /\ \A w \in Workers : missing[w] => wpc[w] = "UnknownLabel"

\* C3 as stated: after the pass every listed label's record has both
\* provided identifiers written by the pass, holding the computed value or
\* the sentinel 0.0, also when its flag was set before the pass.
C3_EveryRecordWritten ==
    AllDone =>
        \A lab \in ListedLabels \cap DOMAIN roiData0 :
            /\ written[lab] = ProvidedFeatures
            /\ roiData[lab].fvals["GEODETIC_LENGTH"]
                  \in {calculate(roiData0[lab]).geodetic_length, DZero}
            /\ roiData[lab].fvals["THICKNESS"]
                  \in {calculate(roiData0[lab]).thickness, DZero}

\* C3 amended: after the pass a listed record whose flag was not set has
\* both provided identifiers written by the pass with the computed values;
\* a record whose flag was set is passed over, nothing is written to it and
\* its two entries hold what they held before the pass.
C3_UnflaggedWrittenFlaggedKept ==
    AllDone =>
        \A lab \in ListedLabels \cap DOMAIN roiData0 :
            IF ~roiData0[lab].bad_data
            THEN /\ written[lab] = ProvidedFeatures
                 /\ roiData[lab].fvals["GEODETIC_LENGTH"]
                       = calculate(roiData0[lab]).geodetic_length
                 /\ roiData[lab].fvals["THICKNESS"] = calculate(roiData0[lab]).thickness
            ELSE /\ written[lab] = {}
                 /\ roiData[lab].fvals = roiData0[lab].fvals

C3_Witness ==
    /\ AllDone
    /\ \E a, b \in ListedLabels \cap DOMAIN roiData0 :
          /\ roiData0[a].bad_data /\ written[a] = {}
          /\ ~roiData0[b].bad_data /\ written[b] = ProvidedFeatures

\* The frame of one step: the key set is kept, calculate changes nothing in
\* the map, and a record that changes belongs to the range of the worker
\* that stepped and changes in the two provided entries only.
C9Frame ==
    /\ DOMAIN roiData' = DOMAIN roiData
    /\ \A w \in Workers :
          (wpc[w] = "check" /\ wpc'[w] = "save_gl") => roiData' = roiData
    /\ \A lab \in DOMAIN roiData :
          roiData'[lab] # roiData[lab] =>
              /\ \E w \in Workers : wpc'[w] # wpc[w] /\ InRange(w, lab)
              /\ roiData'[lab].aux_area = roiData[lab].aux_area
              /\ roiData'[lab].bad_data = roiData[lab].bad_data
              /\ \A f \in FeatureIds \ ProvidedFeatures :
                    roiData'[lab].fvals[f] = roiData[lab].fvals[f]

\* C9: calculate leaves the record unchanged, save_value changes only the
\* entries GEODETIC_LENGTH and THICKNESS, and so no step of a worker changes
\* the map except in those two entries of a record whose label lies in that
\* worker's range.
C9_WorkerChangesOnlyItsTwoEntries == [][C9Frame]_vars

(***************************************************************************)
(* Properties of calculate (SpecGeo).                                      *)
(***************************************************************************)
Calculated == gpc \in {"calculated", "saved"}
Perimeter == gR.fvals["PERIMETER"]

\* L*L/16 - A in exact arithmetic.
ExactRadicandRaw == DSub(DDiv(DMul(Perimeter, Perimeter), DNum(16)), DNum(gR.aux_area))
ExactRadicand == IF DLess(ExactRadicandRaw, DZero) THEN DZero ELSE ExactRadicandRaw

\* C4: thickness + geodetic_length is exactly half the stored perimeter.
C4_SumIsHalfPerimeter ==
    Calculated => DAdd(gObj.thickness, gObj.geodetic_length) = DDiv(Perimeter, DNum(2))

\* C5: the radicand is max(0, L*L/16 - A) and the linear term is L/4, both
\* in exact arithmetic, so that geodetic_length = L/4 + sqrt(t).
C5_ExactRadicandAndLinearTerm ==
    Calculated =>
        /\ gLocals.SqRootTmp = ExactRadicand
        /\ gObj.geodetic_length = DAdd(DDiv(Perimeter, DNum(4)), DSqrt(ExactRadicand))

\* C6: when L*L/16 - A is negative the difference formed by calculate is
\* negative too (no unsigned wrap-around), sqrt is given exactly 0, and
\* geodetic_length is a number equal to the roiPerimeter / 4 term alone.
C6_NegativeRadicandClamped ==
    (Calculated /\ DLess(ExactRadicandRaw, DZero)) =>
        /\ DLess(RadicandRaw(gLocals.roiPerimeter, gLocals.roiArea), DZero)
        /\ gLocals.SqRootTmp = DZero
        /\ gObj.geodetic_length.cls = "fin"
        /\ gObj.geodetic_length = DNum(gLocals.roiPerimeter \div 4)

C6_Witness ==
    /\ gpc = "saved"
    /\ DLess(ExactRadicandRaw, DZero)
    /\ gLocals.roiPerimeter >= 4
    /\ gR.fvals["GEODETIC_LENGTH"] = DNum(gLocals.roiPerimeter \div 4)

(***************************************************************************)
(* Properties of NGTDM_features (SpecNgtdm).                               *)
(***************************************************************************)
\* C7: initialize with minI = maxI sets the bad-data flag and builds no
\* arrays, and every calc_* call made afterwards returns exactly 0.0.
C7_DegenerateRoiReturnsZero ==
    (npc = "initialized" /\ minI = maxI) =>
        /\ ngtdm.bad_roi_data
        /\ ngtdm.P = <<>> /\ ngtdm.S = <<>> /\ ngtdm.N = <<>>
        /\ Z = <<>>
        /\ lastCall.fn # "none" => lastCall.ret = DZero
        /\ calc_Coarseness(ngtdm) = DZero
        /\ calc_Contrast(ngtdm) = DZero
        /\ calc_Busyness(ngtdm) = DZero
        /\ calc_Complexity(ngtdm) = DZero
        /\ calc_Strength(ngtdm) = DZero

C7_Witness ==
    /\ npc = "initialized"
    /\ minI = maxI
    /\ Cardinality(NonZeroPixels(im)) >= 2
    /\ lastCall.fn = "Complexity"

\* The denominator a calc_* call divides by, as a double.
UsedDenominators(fn, o) ==
    CASE fn = "Coarseness" -> {CoarsenessDen(o)}
      [] fn = "Contrast" -> {DNum(ContrastDen1(o)), DNum(ContrastDen2(o))}
      [] fn = "Busyness" -> IF o.Ngp = 1 THEN {} ELSE {BusynessDen(o)}
      [] fn = "Complexity" -> {DNum(ComplexityDen(o))}
      [] fn = "Strength" -> {StrengthDen(o)}
      [] OTHER -> {}

\* C8: with minI # maxI no step divides by zero: every non-zero pixel has a
\* neighbour, and a calc_* call whose denominator is zero returns 0.0.
C8_NoDivisionByZero ==
    (npc = "initialized" /\ minI # maxI) =>
        /\ \A p \in NonZeroPixels(im) : NeighbourCount(im, p[1], p[2]) # 0
        /\ lastCall.fn # "none" =>
              \/ /\ \A d \in UsedDenominators(lastCall.fn, ngtdm) : d # DZero
                 /\ IsFinite(lastCall.ret)
              \/ lastCall.ret = DZero

\* The non-zero pixels in scan order.
RECURSIVE ScanOrder(_, _)
ScanOrder(m, idx) ==
    IF idx >= m.height * m.width THEN <<>>
    ELSE LET p == <<idx \div m.width, idx % m.width>>
         IN  (IF m.px[p] = 0 THEN <<>> ELSE <<p>>) \o ScanOrder(m, idx + 1)

\* C10: with minI # maxI the average recorded for each non-zero pixel is the
\* exact quotient of its in-bounds neighbours' sum by their number, and Nvp
\* counts the non-zero pixels having a neighbour of non-zero intensity.
C10_ExactNeighbourhoodAverage ==
    (npc = "initialized" /\ minI # maxI) =>
        LET ps == ScanOrder(im, 0)
        IN  /\ Len(Z) = Len(ps)
            /\ \A k \in 1..Len(ps) :
                  /\ Z[k][1] = im.px[ps[k]]
                  /\ Z[k][2] = ExactQuotient(NeighbourSum(im, ps[k][1], ps[k][2]),
                                             NeighbourCount(im, ps[k][1], ps[k][2]))
            /\ ngtdm.Nvp = Cardinality({p \in NonZeroPixels(im) :
                                          NeighbourSum(im, p[1], p[2]) > 0})

====
